---- MODULE Spec2Model ----
(***************************************************************************)
(* geojson-places: the size-bounded LRU result cache (cache.js) and the    *)
(* reverse-geolocation lookup that uses it (index-optimized.js).           *)
(*                                                                         *)
(* Two specifications over the same variables:                             *)
(*   SpecCache  one LRUCache instance driven directly through its methods  *)
(*   Spec       the library: configure, lookUp, lookUpRaw, lookUpGeoJSON,  *)
(*              clearCache, getCacheStats, and a caller that writes to an   *)
(*              object a lookup handed back                                 *)
(***************************************************************************)
EXTENDS Integers, Sequences, FiniteSets, TLC

VARIABLES
    cacheInstance,  \* cache.js `cacheInstance`: NoCache or an LRUCache object
    config,         \* index-optimized.js `config`: cacheSize, cache (bound or not)
    features,       \* admin1.features, the ordered feature index
    ret,            \* what the last call did and returned
    promoted,       \* history: the last key a get promoted, and the keys it left behind it
    mutated,        \* history: the keys whose stored object a caller has written to
    shares,         \* <<key, j, part>>: the object stored under key shares part
                    \* ("feature", "geometry") of features[j] with the index
    loc,            \* per caller: where it stands in the call it is running, and its locals
    atomic,         \* whether a call runs to its end before another caller's call starts
    order           \* history: the keys in the order of their last completed get or set

vars == <<cacheInstance, config, features, ret, promoted, mutated, shares,
          loc, atomic, order>>

\* the callers, and a caller that is not inside a call
Callers == {"A", "B"}
Idle == [pc |-> "idle"]

-----------------------------------------------------------------------------
(* Bounds of the model *)

\* keys used when the cache is driven directly are 1..NumKeys
NumKeys == 3

\* JavaScript values, as far as the cache and the lookup tell them apart
Undefined == [t |-> "undefined"]
Null      == [t |-> "null"]
Str(s)    == [t |-> "string", v |-> s]
Num(n)    == [t |-> "number", v |-> n]
Sym       == [t |-> "symbol"]
Obj(o)    == [t |-> "object", v |-> o]

NoCache   == [t |-> "null"]

-----------------------------------------------------------------------------
(* JSON.stringify(x).length, for the shapes of value the model stores *)

RECURSIVE SumOver(_, _)
SumOver(S, f) ==
    IF S = {} THEN 0
    ELSE LET x == CHOOSE y \in S : TRUE IN f[x] + SumOver(S \ {x}, f)

RECURSIVE SumSeq(_)
SumSeq(s) == IF s = <<>> THEN 0 ELSE Head(s) + SumSeq(Tail(s))

\* "[" e1 "," e2 ... "]" given the lengths of the elements
ArrayLen(lens) ==
    2 + SumSeq(lens) + (IF Len(lens) > 0 THEN Len(lens) - 1 ELSE 0)

StringLen(s) == Len(s) + 2
NumberLen(n) == Len(ToString(n))

\* an object whose values are all strings: {"k":"v",...}
PropsLen(p) ==
    LET n == Cardinality(DOMAIN p)
    IN 2 + SumOver(DOMAIN p, [k \in DOMAIN p |-> StringLen(k) + 1 + StringLen(p[k])])
         + (IF n > 0 THEN n - 1 ELSE 0)

PointLen(pt) == ArrayLen([k \in 1..Len(pt) |-> NumberLen(pt[k])])
RingLen(ring) == ArrayLen([k \in 1..Len(ring) |-> PointLen(ring[k])])
RingsLen(rings) == ArrayLen([k \in 1..Len(rings) |-> RingLen(rings[k])])

CoordinatesLen(geometry) ==
    IF geometry.type = "Polygon" THEN RingsLen(geometry.coordinates)
    ELSE IF geometry.type = "MultiPolygon"
         THEN ArrayLen([k \in 1..Len(geometry.coordinates) |->
                            RingsLen(geometry.coordinates[k])])
         ELSE PointLen(geometry.coordinates)

\* {"type":"...","coordinates":...}
GeometryLen(geometry) ==
    2 + (StringLen("type") + 1 + StringLen(geometry.type)) + 1
      + (StringLen("coordinates") + 1 + CoordinatesLen(geometry))

\* {"type":"Feature","properties":{...},"geometry":{...}}
FeatureLen(f) ==
    2 + (StringLen("type") + 1 + StringLen(f.type)) + 1
      + (StringLen("properties") + 1 + PropsLen(f.properties)) + 1
      + (StringLen("geometry") + 1 + GeometryLen(f.geometry))

\* {"type":"FeatureCollection","features":[...]}
CollectionLen(c) ==
    2 + (StringLen("type") + 1 + StringLen(c.type)) + 1
      + (StringLen("features") + 1
           + ArrayLen([k \in 1..Len(c.features) |-> FeatureLen(c.features[k])]))

\* JSON.stringify(undefined) is undefined, not a string
Stringifiable(x) == x.t \notin {"undefined", "symbol"}

StringifyLen(x) ==
    IF x.t = "string" THEN StringLen(x.v)
    ELSE IF x.t = "number" THEN NumberLen(x.v)
    ELSE IF x.t = "null" THEN 4
    ELSE IF "features" \in DOMAIN x.v THEN CollectionLen(x.v)
    ELSE PropsLen(x.v)

-----------------------------------------------------------------------------
(* class LRUCache: the Map is a sequence of entries in insertion order *)

NewLRUCache(maxSize) ==
    [maxSize |-> maxSize, currentSize |-> 0, cache |-> <<>>]

MapKeys(m) == {m[i].key : i \in 1..Len(m)}
MapHas(m, key) == key \in MapKeys(m)
MapIndex(m, key) == CHOOSE i \in 1..Len(m) : m[i].key = key
MapGet(m, key) == m[MapIndex(m, key)]
MapDelete(m, key) == SelectSeq(m, LAMBDA e : e.key # key)
\* Map.prototype.set: a key already present keeps its place
MapSet(m, key, value) ==
    LET e == [key |-> key, data |-> value.data, size |-> value.size]
    IN IF MapHas(m, key) THEN [m EXCEPT ![MapIndex(m, key)] = e]
       ELSE Append(m, e)

\* remove(key) with the size left in the total
remove_KeepSize(c, key) ==
    IF MapHas(c.cache, key)
    THEN [c EXCEPT !.cache = MapDelete(c.cache, key)]
    ELSE c

remove(c, key) ==
    IF MapHas(c.cache, key)
    THEN LET entry == MapGet(c.cache, key)
         IN [c EXCEPT !.currentSize = c.currentSize - entry.size,
                      !.cache = MapDelete(c.cache, key)]
    ELSE c

\* get(key) that reads without moving the entry
get_NoPromote(c, key) ==
    IF ~MapHas(c.cache, key)
    THEN [c |-> c, value |-> Null]
    ELSE [c |-> c, value |-> MapGet(c.cache, key).data]

\* get that moves the key to the end without asking whether it is there
get_NoHasCheck(c, key) ==
    LET value == IF MapHas(c.cache, key) THEN MapGet(c.cache, key)
                 ELSE [data |-> Null, size |-> 0]
    IN [c |-> [c EXCEPT !.cache = MapSet(MapDelete(c.cache, key), key, value)],
        value |-> value.data]

\* the object after the call, and the value returned
get(c, key) ==
    IF ~MapHas(c.cache, key)
    THEN [c |-> c, value |-> Null]
    ELSE LET value == MapGet(c.cache, key)
         IN [c |-> [c EXCEPT !.cache = MapSet(MapDelete(c.cache, key), key, value)],
             value |-> value.data]

_getSize(obj) == StringifyLen(obj) * 2

\* the eviction loop taking the newest entry instead of the oldest
RECURSIVE evict_Newest(_, _)
evict_Newest(c, size) ==
    IF c.currentSize + size > c.maxSize /\ Len(c.cache) > 0
    THEN evict_Newest(remove(c, c.cache[Len(c.cache)].key), size)
    ELSE c

\* the eviction loop run at most once
evict_Once(c, size) ==
    IF c.currentSize + size > c.maxSize /\ Len(c.cache) > 0
    THEN remove(c, c.cache[1].key)
    ELSE c

\* the eviction loop that always leaves one entry behind
RECURSIVE evict_KeepOne(_, _)
evict_KeepOne(c, size) ==
    IF c.currentSize + size > c.maxSize /\ Len(c.cache) > 1
    THEN evict_KeepOne(remove(c, c.cache[1].key), size)
    ELSE c

RECURSIVE evict(_, _)
evict(c, size) ==
    IF c.currentSize + size > c.maxSize /\ Len(c.cache) > 0
    THEN LET firstKey == c.cache[1].key
         IN evict(remove(c, firstKey), size)
    ELSE c

\* set that overwrites a present key in place instead of removing it first
set_NoRemove(c, key, data) ==
    IF ~Stringifiable(data)
    THEN [c |-> c, threw |-> TRUE]
    ELSE LET size == _getSize(data)
             c2 == evict(c, size)
         IN [c |-> [c2 EXCEPT !.cache = MapSet(c2.cache, key, [data |-> data, size |-> size]),
                              !.currentSize = c2.currentSize + size],
             threw |-> FALSE]

\* the object after the call, and whether the call threw (str.length of undefined)
set(c, key, data) ==
    LET c1 == IF MapHas(c.cache, key) THEN remove(c, key) ELSE c
    IN IF ~Stringifiable(data)
       THEN [c |-> c1, threw |-> TRUE]
       ELSE LET size == _getSize(data)
                c2 == evict(c1, size)
            IN [c |-> [c2 EXCEPT !.cache = MapSet(c2.cache, key, [data |-> data, size |-> size]),
                                 !.currentSize = c2.currentSize + size],
                threw |-> FALSE]

clear(c) == [c EXCEPT !.cache = <<>>, !.currentSize = 0]

\* (x * 100).toFixed(2) + '%' for x = currentSize / maxSize
utilization(currentSize, maxSize) ==
    IF maxSize = 0
    THEN (IF currentSize = 0 THEN "NaN%" ELSE "Infinity%")
    ELSE LET h == (currentSize * 10000 + maxSize \div 2) \div maxSize
             cents == h % 100
         IN ToString(h \div 100) \o "."
              \o (IF cents < 10 THEN "0" ELSE "") \o ToString(cents) \o "%"

getStats(c) ==
    [entries |-> Len(c.cache), currentSize |-> c.currentSize, maxSize |-> c.maxSize,
     utilization |-> utilization(c.currentSize, c.maxSize)]

-----------------------------------------------------------------------------
(* The feature index (admin1.features) the lookups scan *)

\* a closed rectangular ring, as [lng, lat] positions
Rect(x0, y0, x1, y1) ==
    << <<x0, y0>>, <<x1, y0>>, <<x1, y1>>, <<x0, y1>>, <<x0, y0>> >>

Props(cont, a2, a3, region, iso) ==
    [cont_code |-> cont, iso_a2 |-> a2, adm0_a3 |-> a3,
     region_code |-> region, iso_3166_2 |-> iso]

Feature(props, geometry) ==
    [type |-> "Feature", properties |-> props, geometry |-> geometry]

\* a state with two holes in it
FeatKS ==
    Feature(Props("NA", "US", "USA", "US-MW", "US-KS"),
            [type |-> "Polygon",
             coordinates |-> << Rect(0, 0, 8, 8), Rect(2, 2, 4, 4), Rect(6, 0, 8, 2) >>])

\* overlaps FeatKS on [4,8] x [4,8]; no subdivision code
FeatCA ==
    Feature(Props("NA", "CA", "CAN", "CA-W", ""),
            [type |-> "Polygon", coordinates |-> << Rect(4, 4, 10, 10) >>])

\* a geometry that is neither Polygon nor MultiPolygon
FeatPT ==
    Feature(Props("OC", "AU", "AUS", "AU-E", "AU-NSW"),
            [type |-> "Point", coordinates |-> <<3, 3>>])

\* two sub-polygons: the first has a hole, which the second fills; the
\* subdivision code carries the sentinel suffix
FeatMX ==
    Feature(Props("NA", "MX", "MEX", "MX-N", "MX-X01~"),
            [type |-> "MultiPolygon",
             coordinates |-> << << Rect(2, 2, 12, 4), Rect(2, 2, 4, 4) >>,
                                << Rect(2, 2, 4, 4) >> >>])

FeatureIndexes ==
    { << FeatKS, FeatCA, FeatPT, FeatMX >>,
      << FeatMX, FeatCA, FeatKS, FeatPT >> }

-----------------------------------------------------------------------------
(* utils.pointInPolygon: the crossing-number test of a ring *)

\* does the ray from point towards increasing x cross the edge a -> b
Crosses(a, b, point) ==
    /\ (a[2] > point[2]) # (b[2] > point[2])
    /\ LET dy == b[2] - a[2]
           lhs == (point[1] - a[1]) * dy
           rhs == (b[1] - a[1]) * (point[2] - a[2])
       IN IF dy > 0 THEN lhs < rhs ELSE lhs > rhs

pointInPolygon(polygon, point) ==
    LET n == Len(polygon)
        crossings == {i \in 1..n :
                        Crosses(polygon[i], polygon[IF i = 1 THEN n ELSE i - 1], point)}
    IN Cardinality(crossings) % 2 = 1

-----------------------------------------------------------------------------
(* index-optimized.js: configuration and the lookup *)

\* 50 * 1024 * 1024
DefaultCacheSize == 52428800

\* cacheSize values handed to configure
CacheSizes == {400, 700}

getCache(inst, maxSize) ==
    IF inst = NoCache THEN NewLRUCache(maxSize) ELSE inst

\* String(x) as `+` and template literals apply it; a Symbol has no conversion
Convertible(x) == x.t # "symbol"
ToStr(x) ==
    IF x.t = "number" THEN ToString(x.v)
    ELSE IF x.t = "string" THEN x.v
    ELSE x.t

\* `${lat}_${lng}_${dataType}` with the mode left out
cacheKey_NoMode(lat, lng, dataType) ==
    ToStr(lat) \o "_" \o ToStr(lng)

cacheKey(lat, lng, dataType) ==
    ToStr(lat) \o "_" \o ToStr(lng) \o "_" \o ToStr(dataType)

ErrorValue(lat, lng) ==
    [t |-> "Error",
     message |-> "Wrong coordinates (lat: " \o ToStr(lat) \o ",lng: " \o ToStr(lng) \o ")"]

\* just-clone: a deep copy, equal in value and sharing nothing with its argument
clone(x) == x

\* the hole loop, from ring j on: found stays true unless a hole holds the point
RECURSIVE excludeHoles(_, _, _)
excludeHoles(rings, j, point) ==
    IF j > Len(rings) THEN TRUE
    ELSE IF pointInPolygon(rings[j], point) THEN FALSE
    ELSE excludeHoles(rings, j + 1, point)

\* the test of the outer ring alone
ringsContain_NoHoles(rings, point) ==
    pointInPolygon(rings[1], point)

\* the hole loop that looks at the first hole only
ringsContain_FirstHole(rings, point) ==
    LET found == pointInPolygon(rings[1], point)
    IN IF found /\ Len(rings) > 1
       THEN ~pointInPolygon(rings[2], point)
       ELSE found

\* one ring list: outer ring, then holes
ringsContain(rings, point) ==
    LET found == pointInPolygon(rings[1], point)
    IN IF found /\ Len(rings) > 1
       THEN excludeHoles(rings, 2, point)
       ELSE found

\* the loop over the sub-polygons of a MultiPolygon, from the k-th on
RECURSIVE multiContain(_, _, _)
multiContain(polys, k, point) ==
    IF k > Len(polys) THEN FALSE
    ELSE IF ringsContain(polys[k], point) THEN TRUE
    ELSE multiContain(polys, k + 1, point)

\* the value of `found` after the body of the scan loop for one feature
geometryContains(geometry, point) ==
    IF geometry.type = "Polygon" THEN ringsContain(geometry.coordinates, point)
    ELSE IF geometry.type = "MultiPolygon" THEN multiContain(geometry.coordinates, 1, point)
    ELSE FALSE

\* the scan that keeps going after a match, so that the last match wins
RECURSIVE scan_LastMatch(_, _, _, _)
scan_LastMatch(countries, i, point, log) ==
    IF i >= Len(countries)
    THEN [found |-> FALSE, i |-> i, log |-> log]
    ELSE LET found == geometryContains(countries[i + 1].geometry, point)
             rest  == scan_LastMatch(countries, i + 1, point, Append(log, found))
         IN IF rest.found THEN rest
            ELSE IF found THEN [found |-> TRUE, i |-> i, log |-> rest.log]
            ELSE rest

\* the scan loop from 0-based index i on: found, i, and the decision made per feature
RECURSIVE scan(_, _, _, _)
scan(countries, i, point, log) ==
    IF i >= Len(countries)
    THEN [found |-> FALSE, i |-> i, log |-> log]
    ELSE LET found == geometryContains(countries[i + 1].geometry, point)
         IN IF found
            THEN [found |-> TRUE, i |-> i, log |-> Append(log, TRUE)]
            ELSE scan(countries, i + 1, point, Append(log, FALSE))

endsWith(s, suffix) ==
    /\ Len(s) >= Len(suffix)
    /\ SubSeq(s, Len(s) - Len(suffix) + 1, Len(s)) = suffix

\* the derivation with state_code always set
deriveProperties_Always(props) ==
    [continent_code |-> props.cont_code, country_a2 |-> props.iso_a2,
     country_a3 |-> props.adm0_a3, region_code |-> props.region_code,
     state_code |-> props.iso_3166_2]

deriveProperties(props) ==
    IF props.iso_3166_2 # "" /\ ~endsWith(props.iso_3166_2, "~")
    THEN [continent_code |-> props.cont_code, country_a2 |-> props.iso_a2,
          country_a3 |-> props.adm0_a3, region_code |-> props.region_code,
          state_code |-> props.iso_3166_2]
    ELSE [continent_code |-> props.cont_code, country_a2 |-> props.iso_a2,
          country_a3 |-> props.adm0_a3, region_code |-> props.region_code]

\* the result for a matched feature, by mode
buildResult(country, dataType) ==
    IF dataType = Str("raw")
    THEN Obj([type |-> "FeatureCollection", features |-> << clone(country) >>])
    ELSE LET properties == deriveProperties(country.properties)
         IN IF dataType = Str("geojson")
            THEN Obj([type |-> "FeatureCollection",
                      features |-> << [type |-> "Feature",
                                       properties |-> properties,
                                       geometry |-> clone(country.geometry)] >>])
            ELSE Obj(clone(properties))

\* What clone(x) shares with the objects x is made of: nothing.
cloneRefs(refs) == {}

\* the result built with the index objects themselves, no copy taken
resultRefs_NoClone(i, dataType) ==
    IF dataType = Str("raw")
    THEN {<<i, "feature">>}
    ELSE IF dataType = Str("geojson") THEN {<<i, "geometry">>} ELSE {}

\* The parts of the index the result built for countries[i] shares. properties
\* is a new object filled with strings, so it shares nothing with props.
resultRefs(i, dataType) ==
    IF dataType = Str("raw")
    THEN cloneRefs({<<i, "feature">>})
    ELSE LET properties == {}
         IN IF dataType = Str("geojson")
            THEN properties \cup cloneRefs({<<i, "geometry">>})
            ELSE cloneRefs(properties)

NoScan == [found |-> FALSE, i |-> 0, log |-> <<>>]

\* the call that stores every result, null included
reverseGeolocation_StoreNull(cfg, inst, countries, lat, lng, dataType) ==
    IF lat.t # "number" \/ lng.t # "number"
    THEN IF Convertible(lat) /\ Convertible(lng)
         THEN [kind |-> "return", value |-> ErrorValue(lat, lng), c |-> inst,
               cacheGet |-> FALSE, cacheSet |-> FALSE, alias |-> FALSE, scan |-> NoScan,
               refs |-> {}]
         ELSE [kind |-> "throw", value |-> Undefined, c |-> inst,
               cacheGet |-> FALSE, cacheSet |-> FALSE, alias |-> FALSE, scan |-> NoScan,
               refs |-> {}]
    ELSE
    LET key    == cacheKey(lat, lng, dataType)
        useC   == cfg.cache # "null"
        cached == IF useC THEN get(inst, key) ELSE [c |-> inst, value |-> Null]
    IN IF useC /\ cached.value # Null
       THEN [kind |-> "return", value |-> cached.value, c |-> cached.c,
             cacheGet |-> TRUE, cacheSet |-> FALSE, alias |-> TRUE, scan |-> NoScan,
             refs |-> {}]
       ELSE
       LET point  == <<lng.v, lat.v>>
           sc     == scan(countries, 0, point, <<>>)
           result == IF sc.found THEN buildResult(countries[sc.i + 1], dataType) ELSE Null
           store  == useC
       IN [kind |-> "return", value |-> result,
           c |-> IF store THEN set(cached.c, key, result).c ELSE cached.c,
           cacheGet |-> useC, cacheSet |-> store, alias |-> store, scan |-> sc,
           refs |-> IF sc.found THEN resultRefs(sc.i + 1, dataType) ELSE {}]

\* reverseGeolocation(lat, lng, dataType) run on cache object inst:
\*   kind, value   how the call ended and what it returned
\*   c             the cache object afterwards
\*   cacheGet, cacheSet   whether config.cache.get / config.cache.set were called
\*   alias         the object returned is the object a cache entry holds
\*   scan          found, i and the per-feature decisions of the scan (NoScan if none ran)
\*   refs          the parts of the index an object built by this call shares
reverseGeolocation(cfg, inst, countries, lat, lng, dataType) ==
    IF lat.t # "number" \/ lng.t # "number"
    THEN IF Convertible(lat) /\ Convertible(lng)
         THEN [kind |-> "return", value |-> ErrorValue(lat, lng), c |-> inst,
               cacheGet |-> FALSE, cacheSet |-> FALSE, alias |-> FALSE, scan |-> NoScan,
               refs |-> {}]
         ELSE [kind |-> "throw", value |-> Undefined, c |-> inst,
               cacheGet |-> FALSE, cacheSet |-> FALSE, alias |-> FALSE, scan |-> NoScan,
               refs |-> {}]
    ELSE
    LET key    == cacheKey(lat, lng, dataType)
        useC   == cfg.cache # "null"
        cached == IF useC THEN get(inst, key) ELSE [c |-> inst, value |-> Null]
    IN IF useC /\ cached.value # Null
       THEN [kind |-> "return", value |-> cached.value, c |-> cached.c,
             cacheGet |-> TRUE, cacheSet |-> FALSE, alias |-> TRUE, scan |-> NoScan,
             refs |-> {}]
       ELSE
       LET point  == <<lng.v, lat.v>>
           sc     == scan(countries, 0, point, <<>>)
           result == IF sc.found THEN buildResult(countries[sc.i + 1], dataType) ELSE Null
           store  == useC /\ result # Null
       IN [kind |-> "return", value |-> result,
           c |-> IF store THEN set(cached.c, key, result).c ELSE cached.c,
           cacheGet |-> useC, cacheSet |-> store, alias |-> store, scan |-> sc,
           refs |-> IF sc.found THEN resultRefs(sc.i + 1, dataType) ELSE {}]

-----------------------------------------------------------------------------
(* Spec: the library *)

\* (lat, lng) pairs the callers ask about:
\*   (5, 5)    inside FeatKS and FeatCA
\*   (3, 3)    in the first hole of FeatKS and of FeatMX's first sub-polygon,
\*             inside FeatMX's second sub-polygon
\*   (3, 11)   inside FeatMX's first sub-polygon
\*   (1, 7)    in the second hole of FeatKS, inside nothing
\*   (13, 13)  outside every ring
QueryPoints ==
    { <<Num(5), Num(5)>>, <<Num(3), Num(3)>>, <<Num(3), Num(11)>>,
      <<Num(1), Num(7)>>, <<Num(13), Num(13)>> }

\* calls with a coordinate that is not a number
BadInputs ==
    { <<Str("x"), Num(10)>>, <<Num(1), Sym>> }

Inputs == QueryPoints \cup BadInputs

Bound == config.cache # "null"

Init ==
    /\ cacheInstance = NoCache
    /\ config = [useOptimized |-> TRUE, cacheSize |-> DefaultCacheSize, cache |-> "null"]
    /\ features \in FeatureIndexes
    /\ ret = [op |-> "init"]
    /\ promoted = [t |-> "none"]
    /\ mutated = {}
    /\ shares = {}
    /\ loc = [p \in Callers |-> Idle]
    /\ atomic = TRUE
    /\ order = <<>>

\* configure(options); an option left out is Undefined
Configure(options) ==
    /\ IF options.cacheSize # Undefined
       THEN /\ cacheInstance' = getCache(cacheInstance, options.cacheSize.v)
            /\ config' = [config EXCEPT
                   !.cacheSize = options.cacheSize.v,
                   !.cache = "cacheInstance",
                   !.useOptimized = IF options.useOptimized # Undefined
                                    THEN options.useOptimized.v ELSE @]
       ELSE /\ cacheInstance' = cacheInstance
            /\ config' = [config EXCEPT
                   !.useOptimized = IF options.useOptimized # Undefined
                                    THEN options.useOptimized.v ELSE @]
    /\ ret' = [op |-> "configure"]
    /\ UNCHANGED <<features, promoted, mutated, shares, loc, atomic, order>>

\* the parts of the index the object stored under key shares
SharedBy(key) == {<<s[2], s[3]>> : s \in {x \in shares : x[1] = key}}

Lookup(op, lat, lng, dataType) ==
    \E r \in {reverseGeolocation(config, cacheInstance, features, lat, lng, dataType)} :
       /\ cacheInstance' = r.c
       /\ ret' = [op |-> op, lat |-> lat, lng |-> lng, dataType |-> dataType,
                  kind |-> r.kind, value |-> r.value, alias |-> r.alias,
                  cacheGet |-> r.cacheGet, cacheSet |-> r.cacheSet, scan |-> r.scan,
                  written |-> r.alias /\ ~r.cacheSet
                              /\ cacheKey(lat, lng, dataType) \in mutated,
                  refs |-> IF r.alias /\ ~r.cacheSet
                           THEN SharedBy(cacheKey(lat, lng, dataType))
                           ELSE r.refs]
       /\ mutated' = IF Bound THEN mutated \cap MapKeys(r.c.cache) ELSE mutated
       /\ shares' = {s \in shares : MapHas(r.c.cache, s[1])
                                     /\ (r.cacheSet => s[1] # cacheKey(lat, lng, dataType))}
                    \cup (IF r.cacheSet
                          THEN {<<cacheKey(lat, lng, dataType)>> \o ref : ref \in r.refs}
                          ELSE {})
       /\ UNCHANGED <<config, features, promoted, loc, atomic, order>>

LookUp(lat, lon) == Lookup("lookUp", lat, lon, Null)
LookUpRaw(lat, lon) == Lookup("lookUpRaw", lat, lon, Str("raw"))
LookUpGeoJSON(lat, lon) == Lookup("lookUpGeoJSON", lat, lon, Str("geojson"))

ClearCache ==
    /\ cacheInstance' = IF Bound THEN clear(cacheInstance) ELSE cacheInstance
    /\ mutated' = IF Bound THEN {} ELSE mutated
    /\ shares' = IF Bound THEN {} ELSE shares
    /\ ret' = [op |-> "clearCache"]
    /\ UNCHANGED <<config, features, promoted, loc, atomic, order>>

GetCacheStats ==
    /\ ret' = [op |-> "getCacheStats",
               value |-> IF Bound THEN Obj(getStats(cacheInstance)) ELSE Null]
    /\ UNCHANGED <<cacheInstance, config, features, promoted, mutated, shares, loc, atomic, order>>

\* what a caller does to an object it was handed: overwrite a field
Mutate(x) ==
    IF "features" \in DOMAIN x.v
    THEN Obj([x.v EXCEPT !.features = <<>>])
    ELSE Obj([x.v EXCEPT !.country_a2 = "XX"])

\* The index after a write to every part of it that refs names: a write to a
\* shared object is a write to the index.
WriteThrough(countries, refs) ==
    [j \in DOMAIN countries |->
        IF <<j, "feature">> \in refs
        THEN [countries[j] EXCEPT !.properties.iso_a2 = "XX"]
        ELSE IF <<j, "geometry">> \in refs
             THEN [countries[j] EXCEPT !.geometry.coordinates = <<>>]
             ELSE countries[j]]

\* A caller writes to the object it was handed for key. That object is the one
\* the entry under key holds: set(cacheKey, result) stores it and the lookup
\* returns it, on the miss and on every later hit.
CallerMutate(key) ==
    /\ Bound
    /\ MapHas(cacheInstance.cache, key)
    /\ key \notin mutated
    /\ LET i == MapIndex(cacheInstance.cache, key)
       IN cacheInstance' = [cacheInstance EXCEPT
              !.cache[i].data = Mutate(cacheInstance.cache[i].data)]
    /\ mutated' = mutated \cup {key}
    /\ features' = WriteThrough(features, SharedBy(key))
    /\ ret' = [op |-> "callerMutate"]
    /\ UNCHANGED <<config, promoted, shares, loc, atomic, order>>

ConfigureOptions ==
    { [cacheSize |-> cs, useOptimized |-> Undefined] : cs \in {Num(n) : n \in CacheSizes} }
    \cup { [cacheSize |-> Undefined, useOptimized |-> [t |-> "boolean", v |-> TRUE]] }

Next ==
    \/ \E options \in ConfigureOptions : Configure(options)
    \/ \E p \in Inputs : LookUp(p[1], p[2])
    \/ \E p \in Inputs : LookUpRaw(p[1], p[2])
    \/ \E p \in Inputs : LookUpGeoJSON(p[1], p[2])
    \/ ClearCache
    \/ GetCacheStats
    \/ \E key \in MapKeys(IF Bound THEN cacheInstance.cache ELSE <<>>) : CallerMutate(key)

Spec == Init /\ [][Next]_vars

-----------------------------------------------------------------------------
(* SpecCache: one LRUCache object, its methods called directly *)

Keys == 1..NumKeys

\* values handed to set: strings of 2, 4 and 6 JSON characters, and undefined
DataValues == {Str(""), Str("ab"), Str("abcd"), Undefined}

\* maxSize values handed to the constructor
MaxSizes == {8, 16}

NotPromoted == [t |-> "none"]

InitCache ==
    /\ cacheInstance \in {NewLRUCache(m) : m \in MaxSizes}
    /\ config = [useOptimized |-> TRUE, cacheSize |-> DefaultCacheSize, cache |-> "null"]
    /\ features \in FeatureIndexes
    /\ ret = [op |-> "init"]
    /\ promoted = NotPromoted
    /\ mutated = {}
    /\ shares = {}
    /\ loc = [p \in Callers |-> Idle]
    /\ atomic = TRUE
    /\ order = <<>>

Get(key) ==
    \E r \in {get(cacheInstance, key)} :
       /\ cacheInstance' = r.c
       /\ ret' = [op |-> "get", key |-> key, kind |-> "return", value |-> r.value]
       /\ promoted' = IF MapHas(cacheInstance.cache, key)
                      THEN [t |-> "some", key |-> key,
                            others |-> MapKeys(cacheInstance.cache) \ {key}]
                      ELSE promoted
       /\ UNCHANGED <<config, features, mutated, shares, loc, atomic, order>>

\* a set of the promoted key replaces it, a set of a key it left behind moves
\* that key: either ends the history of the promotion; ret also tells whether
\* the key was present and how many other entries the call took out
Set(key, data) ==
    \E r \in {set(cacheInstance, key, data)} :
       /\ cacheInstance' = r.c
       /\ ret' = [op |-> "set", key |-> key,
                  kind |-> IF r.threw THEN "throw" ELSE "return", value |-> Undefined,
                  data |-> data,
                  replaced |-> MapHas(cacheInstance.cache, key),
                  evicted |-> IF r.threw THEN 0
                              ELSE Len(MapDelete(cacheInstance.cache, key)) + 1
                                     - Len(r.c.cache)]
       /\ promoted' = IF promoted.t = "some"
                         /\ (key = promoted.key \/ key \in promoted.others)
                      THEN NotPromoted ELSE promoted
       /\ UNCHANGED <<config, features, mutated, shares, loc, atomic, order>>

Remove(key) ==
    /\ cacheInstance' = remove(cacheInstance, key)
    /\ ret' = [op |-> "remove", key |-> key, kind |-> "return", value |-> Undefined]
    /\ promoted' = IF promoted.t = "some" /\ key = promoted.key
                   THEN NotPromoted ELSE promoted
    /\ UNCHANGED <<config, features, mutated, shares, loc, atomic, order>>

Clear ==
    /\ cacheInstance' = clear(cacheInstance)
    /\ ret' = [op |-> "clear", key |-> 0, kind |-> "return", value |-> Undefined]
    /\ promoted' = NotPromoted
    /\ UNCHANGED <<config, features, mutated, shares, loc, atomic, order>>

GetStats ==
    /\ ret' = [op |-> "getStats", key |-> 0, kind |-> "return",
               value |-> Obj(getStats(cacheInstance))]
    /\ UNCHANGED <<cacheInstance, config, features, promoted, mutated, shares, loc, atomic, order>>

NextCache ==
    \/ \E key \in Keys : Get(key)
    \/ \E key \in Keys, data \in DataValues : Set(key, data)
    \/ \E key \in Keys : Remove(key)
    \/ Clear
    \/ GetStats

SpecCache == InitCache /\ [][NextCache]_vars

-----------------------------------------------------------------------------
(* Claims about LRUCache, checked under SpecCache *)

EntrySizes(c) == [i \in 1..Len(c.cache) |-> c.cache[i].size]

\* C1: in every state reached by get, set, remove and clear calls on a fresh
\* cache, currentSize is the sum of the size fields of the stored entries.
C1_CurrentSizeIsSum ==
    cacheInstance.currentSize = SumSeq(EntrySizes(cacheInstance))

\* a remove took a key out and left two entries behind
C1_Witness ==
    /\ ret.op = "remove"
    /\ ret.key \notin MapKeys(cacheInstance.cache)
    /\ Len(cacheInstance.cache) = 2
    /\ cacheInstance.currentSize > 0

\* C2: currentSize exceeds maxSize only when the cache holds exactly one entry
\* and that entry's own size is greater than maxSize.
C2_CapacityBound ==
    cacheInstance.currentSize > cacheInstance.maxSize =>
        /\ Len(cacheInstance.cache) = 1
        /\ cacheInstance.cache[1].size > cacheInstance.maxSize

\* a set filled the cache to its capacity with two entries
C2_Witness ==
    /\ ret.op = "set"
    /\ ret.kind = "return"
    /\ Len(cacheInstance.cache) = 2
    /\ cacheInstance.currentSize = cacheInstance.maxSize

\* a set left a single oversized entry
C2_WitnessOversized ==
    /\ ret.op = "set"
    /\ cacheInstance.currentSize > cacheInstance.maxSize

\* C3: after get(k) on a present key, and until a get or set touches k or a
\* key that was present with it, k is evicted only once every key that was
\* present at the time of the get is gone.
C3_PromotedEvictedLast ==
    (promoted.t = "some" /\ promoted.key \notin MapKeys(cacheInstance.cache)) =>
        promoted.others \cap MapKeys(cacheInstance.cache) = {}

\* a set evicted a key the promoted key had left behind, and the promoted key stays
C3_Witness ==
    /\ promoted.t = "some"
    /\ ret.op = "set"
    /\ promoted.key \in MapKeys(cacheInstance.cache)
    /\ promoted.others \ MapKeys(cacheInstance.cache) # {}
    /\ cacheInstance.cache[1].key = promoted.key

-----------------------------------------------------------------------------
(* Claims about the lookup, checked under Spec *)

IsLookup == ret.op \in {"lookUp", "lookUpRaw", "lookUpGeoJSON"}
IsNumeric == ret.lat.t = "number" /\ ret.lng.t = "number"
\* the scan ran: the call was not answered from the cache
Scanned == IsLookup /\ IsNumeric /\ ret.scan.log # <<>>
QueryPoint == <<ret.lng.v, ret.lat.v>>

\* the containment rule as the specification states it, over the ring test
PolygonRule(rings, point) ==
    /\ pointInPolygon(rings[1], point)
    /\ \A k \in 2..Len(rings) : ~pointInPolygon(rings[k], point)

ContainsRule(geometry, point) ==
    CASE geometry.type = "Polygon" -> PolygonRule(geometry.coordinates, point)
      [] geometry.type = "MultiPolygon" ->
            \E k \in 1..Len(geometry.coordinates) :
                PolygonRule(geometry.coordinates[k], point)
      [] OTHER -> FALSE

Matching(point) ==
    {j \in 1..Len(features) : ContainsRule(features[j].geometry, point)}

Min(S) == CHOOSE x \in S : \A y \in S : x <= y

\* C4: when a lookup misses the cache and two or more features contain the
\* point, the result is built from the one with the smallest index.
C4_FirstMatchWins ==
    (Scanned /\ Cardinality(Matching(QueryPoint)) >= 2) =>
        LET first == Min(Matching(QueryPoint))
        IN /\ ret.scan.found
           /\ ret.scan.i + 1 = first
           /\ ret.value = buildResult(features[first], ret.dataType)

\* two features contain the point and the earlier of them is not the first feature
C4_Witness ==
    /\ Scanned
    /\ Cardinality(Matching(QueryPoint)) >= 2
    /\ ret.scan.i = 1
    /\ ret.value # Null

\* C5: the decision the scan makes for each feature it visits is the
\* containment rule: Polygon, in ring 0 and in no later ring; MultiPolygon, some
\* sub-polygon satisfies the Polygon rule; any other type, false.
C5_ContainmentRule ==
    Scanned =>
        \A j \in 1..Len(ret.scan.log) :
            ret.scan.log[j] = ContainsRule(features[j].geometry, QueryPoint)

\* one scan turned down a Polygon because of a hole, turned down a geometry of
\* another type, and accepted a MultiPolygon
C5_Witness ==
    /\ Scanned
    /\ \E j \in 1..Len(ret.scan.log) :
          /\ features[j].geometry.type = "Polygon"
          /\ pointInPolygon(features[j].geometry.coordinates[1], QueryPoint)
          /\ ~ret.scan.log[j]
    /\ \E j \in 1..Len(ret.scan.log) :
          /\ features[j].geometry.type = "Point"
          /\ ~ret.scan.log[j]
    /\ \E j \in 1..Len(ret.scan.log) :
          /\ features[j].geometry.type = "MultiPolygon"
          /\ ret.scan.log[j]

\* what the call returns when no cache is configured
Uncached(lat, lng, dataType) ==
    reverseGeolocation([config EXCEPT !.cache = "null"], NoCache, features,
                       lat, lng, dataType).value

\* C6: whatever lookups, evictions and clearCache calls came before, a lookup
\* returns the value the same (lat, lng, mode) yields without a cache, as long
\* as no caller has written to the object returned.
C6_SameResultWhateverTheCache ==
    (IsLookup /\ IsNumeric /\ ~ret.written) =>
        /\ ret.kind = "return"
        /\ ret.value = Uncached(ret.lat, ret.lng, ret.dataType)

\* a lookup answered from a cache that holds another entry as well
C6_Witness ==
    /\ IsLookup /\ IsNumeric /\ ~ret.written
    /\ ret.alias /\ ~ret.cacheSet
    /\ Len(cacheInstance.cache) >= 2
    /\ ret.value # Null

\* C7: no result is the object a cache entry holds, so a caller that writes to
\* a result it was handed cannot change what a later lookup of the same
\* (lat, lng, mode) returns: every lookup returns what the index yields.
C7_MutationCannotChangeLookup ==
    (IsLookup /\ IsNumeric) =>
        ret.value = Uncached(ret.lat, ret.lng, ret.dataType)

\* does string s hold string sub
Contains(s, sub) ==
    \E i \in 1..(Len(s) - Len(sub) + 1) : SubSeq(s, i, i + Len(sub) - 1) = sub

\* C8: when lat or lng is not a number the call returns an error value that
\* carries both inputs, does not throw, and neither reads nor writes the cache.
C8_BadInputReturnsError ==
    (IsLookup /\ ~IsNumeric) =>
        /\ ret.kind = "return"
        /\ ret.value.t = "Error"
        /\ Contains(ret.value.message, ToStr(ret.lat))
        /\ Contains(ret.value.message, ToStr(ret.lng))
        /\ ~ret.cacheGet
        /\ ~ret.cacheSet

\* C9: when no feature contains the point, lookUp, lookUpRaw and lookUpGeoJSON
\* return null, whatever the cache holds.
C9_NoMatchIsNull ==
    (IsLookup /\ IsNumeric /\ Matching(QueryPoint) = {}) =>
        /\ ret.kind = "return"
        /\ ret.value = Null

\* a lookup of a point in a hole nothing fills, with a cache that holds entries
C9_Witness ==
    /\ ret.op = "lookUpGeoJSON" /\ IsNumeric
    /\ Matching(QueryPoint) = {}
    /\ \E j \in 1..Len(features) :
           /\ features[j].geometry.type = "Polygon"
           /\ pointInPolygon(features[j].geometry.coordinates[1], QueryPoint)
    /\ Bound
    /\ Len(cacheInstance.cache) >= 1
    /\ ret.value = Null

\* the derived properties object inside a result
DerivedOf(value, dataType) ==
    IF dataType = Str("geojson") THEN value.v.features[1].properties ELSE value.v

\* C10: in the properties-only and geojson modes the derived properties carry
\* the matched feature's continent, country and region codes, and have a
\* state_code field, equal to iso_3166_2, iff iso_3166_2 is non-empty and does
\* not end with "~".
C10_DerivedProperties ==
    (Scanned /\ ret.scan.found /\ ret.dataType # Str("raw")) =>
        LET props == features[ret.scan.i + 1].properties
            iso   == props.iso_3166_2
            d     == DerivedOf(ret.value, ret.dataType)
        IN /\ d.continent_code = props.cont_code
           /\ d.country_a2 = props.iso_a2
           /\ d.country_a3 = props.adm0_a3
           /\ d.region_code = props.region_code
           /\ "state_code" \in DOMAIN d
                <=> (Len(iso) > 0 /\ SubSeq(iso, Len(iso), Len(iso)) # "~")
           /\ "state_code" \in DOMAIN d => d.state_code = iso
           /\ DOMAIN d \subseteq {"continent_code", "country_a2", "country_a3",
                                  "region_code", "state_code"}

\* a geojson result for a feature whose subdivision code ends with the sentinel
C10_Witness ==
    /\ Scanned /\ ret.scan.found /\ ret.dataType = Str("geojson")
    /\ endsWith(features[ret.scan.i + 1].properties.iso_3166_2, "~")
    /\ "state_code" \notin DOMAIN DerivedOf(ret.value, ret.dataType)

\* a properties result with a state_code
C10_WitnessStateCode ==
    /\ Scanned /\ ret.scan.found /\ ret.dataType = Null
    /\ "state_code" \in DOMAIN DerivedOf(ret.value, ret.dataType)

\* a properties result for a feature whose subdivision code is empty
C10_WitnessEmpty ==
    /\ Scanned /\ ret.scan.found /\ ret.dataType = Null
    /\ features[ret.scan.i + 1].properties.iso_3166_2 = ""

-----------------------------------------------------------------------------
(* Claims C11..C20 *)

\* C11: after any sequence of configure calls the one cache the lookups use
\* has the capacity given to the last configure({cacheSize: N}).
C11_CapacityIsConfiguredSize ==
    Bound => cacheInstance.maxSize = config.cacheSize

\* C12: a lookup whose result is null leaves the cache as it was (entries,
\* order, currentSize), stores nothing under its key, and was itself answered
\* by a scan, so the same lookup made again scans again.
C12_NullResultStoresNothing ==
    [][ (ret'.op \in {"lookUp", "lookUpRaw", "lookUpGeoJSON"}
           /\ ret'.lat.t = "number" /\ ret'.lng.t = "number"
           /\ ret'.value = Null)
        => /\ cacheInstance' = cacheInstance
           /\ ~ret'.cacheSet
           /\ ret'.scan.log # <<>>
           /\ Bound => ~MapHas(cacheInstance'.cache,
                               cacheKey(ret'.lat, ret'.lng, ret'.dataType)) ]_vars

\* a null result from a scan, with a bound cache that holds two entries
C12_Witness ==
    /\ ret.op = "lookUp" /\ IsNumeric
    /\ ret.value = Null
    /\ Bound
    /\ ret.cacheGet /\ ~ret.cacheSet
    /\ ret.scan.log # <<>>
    /\ Len(cacheInstance.cache) = 2

\* the sizes of the entries of m from position k on, added up
SizeFrom(m, k) == SumSeq([i \in 1..(Len(m) - k + 1) |-> m[k + i - 1].size])

\* C13: set evicts from the least-recently-used end and no more than needed:
\* the entries that stay are the newest ones in their old order, the last
\* entry taken out was needed (the total with it did not fit), and the loop
\* went on only while the total did not fit and entries were left.
C13_EvictsOldestMinimal ==
    [][ (ret'.op = "set" /\ ret'.kind = "return")
        => LET old  == MapDelete(cacheInstance.cache, ret'.key)
               new  == cacheInstance'.cache
               size == new[Len(new)].size
               k    == Len(old) + 1 - Len(new)
           IN /\ k \in 0..Len(old)
              /\ SubSeq(new, 1, Len(new) - 1) = SubSeq(old, k + 1, Len(old))
              /\ k > 0 => SizeFrom(old, k) + size > cacheInstance.maxSize
              /\ \/ SizeFrom(old, k + 1) + size <= cacheInstance.maxSize
                 \/ k = Len(old) ]_vars

\* a set of a new key took out one entry and left a newer one in place
C13_Witness ==
    /\ ret.op = "set" /\ ret.kind = "return"
    /\ ~ret.replaced
    /\ ret.evicted = 1
    /\ Len(cacheInstance.cache) = 2
    /\ cacheInstance.currentSize < cacheInstance.maxSize

\* C14: a set whose value is by itself larger than maxSize evicts every
\* stored entry and still inserts the new one: right after it the cache holds
\* that one entry, get(key) returns the value and currentSize is its size.
C14_OversizedEntryStandsAlone ==
    (ret.op = "set" /\ ret.kind = "return"
       /\ _getSize(ret.data) > cacheInstance.maxSize)
    => /\ cacheInstance.cache
            = <<[key |-> ret.key, data |-> ret.data, size |-> _getSize(ret.data)]>>
       /\ cacheInstance.currentSize = _getSize(ret.data)
       /\ cacheInstance.currentSize > cacheInstance.maxSize
       /\ get(cacheInstance, ret.key).value = ret.data

\* an oversized set of a new key that took out the two entries stored before
C14_Witness ==
    /\ ret.op = "set" /\ ret.kind = "return"
    /\ _getSize(ret.data) > cacheInstance.maxSize
    /\ ~ret.replaced
    /\ ret.evicted = 2

\* C15: a set of a key that is present replaces it without double counting:
\* the Map has one entry for the key, at the most-recently-used end with the
\* new value, currentSize is the sum of the sizes left, and the old entry's
\* size is released before the eviction loop decides, so nothing else goes
\* when the total without the old entry and with the new one fits.
C15_ReplaceReleasesOldSize ==
    [][ (ret'.op = "set" /\ ret'.kind = "return"
           /\ MapHas(cacheInstance.cache, ret'.key))
        => LET old     == cacheInstance.cache
               new     == cacheInstance'.cache
               size    == _getSize(ret'.data)
               oldsize == MapGet(old, ret'.key).size
           IN /\ Cardinality({i \in 1..Len(new) : new[i].key = ret'.key}) = 1
              /\ new[Len(new)] = [key |-> ret'.key, data |-> ret'.data, size |-> size]
              /\ cacheInstance'.currentSize = SizeFrom(new, 1)
              /\ cacheInstance.currentSize - oldsize + size <= cacheInstance.maxSize
                   => SubSeq(new, 1, Len(new) - 1) = MapDelete(old, ret'.key) ]_vars

\* a replacement that fills the cache to the brim beside an older entry: with
\* the old size still counted the loop would have taken that entry out
C15_Witness ==
    /\ ret.op = "set" /\ ret.kind = "return"
    /\ ret.replaced
    /\ ret.evicted = 0
    /\ Len(cacheInstance.cache) = 2
    /\ cacheInstance.currentSize = cacheInstance.maxSize

\* C16: getStats, and get of a key that is absent, leave the cache as it was
\* (entries, order, currentSize, maxSize); get of an absent key returns null.
C16_ReadsLeaveCacheAlone ==
    [][ /\ ret'.op = "getStats" => cacheInstance' = cacheInstance
        /\ (ret'.op = "get" /\ ~MapHas(cacheInstance.cache, ret'.key))
           => /\ cacheInstance' = cacheInstance
              /\ ret'.value = Null ]_vars

\* a get that missed while two other keys were stored
C16_Witness ==
    /\ ret.op = "get"
    /\ ret.value = Null
    /\ ~MapHas(cacheInstance.cache, ret.key)
    /\ Len(cacheInstance.cache) = 2

\* getStats answered for a cache holding two entries
C16_WitnessStats ==
    /\ ret.op = "getStats"
    /\ ret.value.v.entries = 2

\* C20: a set that faults because the value cannot be size-estimated leaves
\* the cache exactly as it was: an entry stored under the key is still there
\* in its recency position and currentSize has not changed.
C20_FaultingSetLeavesCacheAlone ==
    [][ (ret'.op = "set" /\ ret'.kind = "throw")
        => cacheInstance' = cacheInstance ]_vars

\* C17: no lookup (any mode, hit or miss), cache operation or caller write to
\* a result changes the feature index, and no object a lookup returns or the
\* cache stores shares a feature, its geometry or its properties with it.
C17_IndexNeverChanges ==
    [][ /\ features' = features
        /\ shares' = {}
        /\ (ret'.op \in {"lookUp", "lookUpRaw", "lookUpGeoJSON"}
              /\ ret'.lat.t = "number" /\ ret'.lng.t = "number")
           => ret'.refs = {} ]_vars

\* a raw lookup answered from the cache with the object a caller had written
\* to, while another written object (a geojson result) is stored beside it
C17_Witness ==
    /\ ret.op = "lookUpRaw" /\ IsNumeric
    /\ ret.written
    /\ ret.value.v.features = <<>>
    /\ Cardinality(mutated) = 2
    /\ features \in FeatureIndexes

-----------------------------------------------------------------------------
(* The methods of LRUCache statement by statement: each action is one access *)
(* to the Map or to currentSize by one caller                                *)

StepKeys == {1, 2}

\* values handed to set: sizes 4 and 8
StepData == {Str(""), Str("ab")}

\* Map.prototype.get of a key that is not there: undefined, which has no
\* data and no size to read
NoValue == [data |-> Undefined, size |-> 0]
MapRead(m, key) ==
    IF MapHas(m, key)
    THEN [data |-> MapGet(m, key).data, size |-> MapGet(m, key).size]
    ELSE NoValue

\* this.currentSize -= entry.size, left out
subSize_Keep(c, entry) == c

\* this.currentSize -= entry.size
subSize(c, entry) == [c EXCEPT !.currentSize = @ - entry.size]

\* this.currentSize += size
addSize(c, size) == [c EXCEPT !.currentSize = @ + size]

\* the condition of the eviction loop
loopTest(c, size) == c.currentSize + size > c.maxSize /\ Len(c.cache) > 0

\* this.cache.keys().next().value: undefined (0 here) for an empty Map
firstKey(c) == IF Len(c.cache) > 0 THEN c.cache[1].key ELSE 0

\* a caller may take a step: always when calls interleave, and only while no
\* other caller is inside a call when calls are atomic
Turn(p) == atomic => \A q \in Callers \ {p} : loc[q].pc = "idle"

At(p, pc) == Turn(p) /\ loc[p].pc = pc

\* calls start only while the total, which interleaved steps can push
\* anywhere, is between zero and SizeLimit
SizeLimit == 8
Callable(p) ==
    /\ At(p, "idle")
    /\ cacheInstance.currentSize \in 0..SizeLimit

libFrame == <<config, features, promoted, mutated, shares, atomic>>

\* the recency order after a call on key has ended with the Map as m: a get
\* that hit and a set put key last, keys no longer stored drop out
Touch(m, key, last) ==
    LET kept == SelectSeq(order, LAMBDA k : MapHas(m, k) /\ k # key)
    IN IF last /\ MapHas(m, key) THEN Append(kept, key) ELSE kept

\* caller p leaves its call
Return(p, kind, value, m, last) ==
    /\ loc' = [loc EXCEPT ![p] = Idle]
    /\ ret' = [op |-> loc[p].op, kind |-> kind, value |-> value]
    /\ order' = IF kind = "throw" THEN order ELSE Touch(m, loc[p].key, last)

Goto(p, pc) ==
    /\ loc' = [loc EXCEPT ![p].pc = pc]
    /\ UNCHANGED <<ret, order>>

CallGet(p, key) ==
    /\ Callable(p)
    /\ loc' = [loc EXCEPT ![p] = [pc |-> "get_has", op |-> "get", key |-> key,
                                  value |-> NoValue]]
    /\ UNCHANGED <<cacheInstance, ret, order, libFrame>>

\* if (!this.cache.has(key)) return null
GetHas(p) ==
    /\ At(p, "get_has")
    /\ IF MapHas(cacheInstance.cache, loc[p].key)
       THEN Goto(p, "get_read")
       ELSE Return(p, "return", Null, cacheInstance.cache, FALSE)
    /\ UNCHANGED <<cacheInstance, libFrame>>

\* const value = this.cache.get(key)
GetRead(p) ==
    /\ At(p, "get_read")
    /\ loc' = [loc EXCEPT ![p].pc = "get_delete",
                          ![p].value = MapRead(cacheInstance.cache, loc[p].key)]
    /\ UNCHANGED <<cacheInstance, ret, order, libFrame>>

\* this.cache.delete(key)
GetDelete(p) ==
    /\ At(p, "get_delete")
    /\ cacheInstance' = [cacheInstance EXCEPT !.cache = MapDelete(@, loc[p].key)]
    /\ Goto(p, "get_insert")
    /\ UNCHANGED libFrame

\* this.cache.set(key, value); return value.data
GetInsert(p) ==
    /\ At(p, "get_insert")
    /\ cacheInstance' = [cacheInstance EXCEPT
           !.cache = MapSet(@, loc[p].key, loc[p].value)]
    /\ IF loc[p].value = NoValue
       THEN Return(p, "throw", Undefined, cacheInstance'.cache, TRUE)
       ELSE Return(p, "return", loc[p].value.data, cacheInstance'.cache, TRUE)
    /\ UNCHANGED libFrame

CallSet(p, key, data) ==
    /\ Callable(p)
    /\ loc' = [loc EXCEPT ![p] = [pc |-> "set_has", op |-> "set", key |-> key,
                                  data |-> data, size |-> _getSize(data),
                                  rkey |-> 0, back |-> "", entry |-> NoValue]]
    /\ UNCHANGED <<cacheInstance, ret, order, libFrame>>

\* caller p enters this.remove(key), to go on at pc back when it returns
EnterRemove(p, key, back) ==
    /\ loc' = [loc EXCEPT ![p].pc = "rm_has", ![p].rkey = key, ![p].back = back]
    /\ UNCHANGED <<ret, order>>

\* this.remove returns to the statement after the call in set
LeaveRemove(p) ==
    /\ loc' = [loc EXCEPT ![p].pc = loc[p].back, ![p].rkey = 0, ![p].back = ""]
    /\ UNCHANGED <<ret, order>>

\* set: if (this.cache.has(key)) this.remove(key)
SetHas(p) ==
    /\ At(p, "set_has")
    /\ IF MapHas(cacheInstance.cache, loc[p].key)
       THEN EnterRemove(p, loc[p].key, "set_test")
       ELSE Goto(p, "set_test")
    /\ UNCHANGED <<cacheInstance, libFrame>>

\* set: while (this.currentSize + size > this.maxSize && this.cache.size > 0)
SetTest(p) ==
    /\ At(p, "set_test")
    /\ IF loopTest(cacheInstance, loc[p].size)
       THEN Goto(p, "set_first")
       ELSE Goto(p, "set_insert")
    /\ UNCHANGED <<cacheInstance, libFrame>>

\* set: const firstKey = this.cache.keys().next().value; this.remove(firstKey)
SetFirst(p) ==
    /\ At(p, "set_first")
    /\ EnterRemove(p, firstKey(cacheInstance), "set_test")
    /\ UNCHANGED <<cacheInstance, libFrame>>

\* remove: if (this.cache.has(key))
RmHas(p) ==
    /\ At(p, "rm_has")
    /\ IF MapHas(cacheInstance.cache, loc[p].rkey)
       THEN Goto(p, "rm_read")
       ELSE LeaveRemove(p)
    /\ UNCHANGED <<cacheInstance, libFrame>>

\* remove: const entry = this.cache.get(key)
RmRead(p) ==
    /\ At(p, "rm_read")
    /\ loc' = [loc EXCEPT ![p].pc = "rm_size",
                          ![p].entry = MapRead(cacheInstance.cache, loc[p].rkey)]
    /\ UNCHANGED <<cacheInstance, ret, order, libFrame>>

\* remove: this.currentSize -= entry.size; a TypeError when entry is undefined
RmSize(p) ==
    /\ At(p, "rm_size")
    /\ IF loc[p].entry = NoValue
       THEN /\ Return(p, "throw", Undefined, cacheInstance.cache, FALSE)
            /\ UNCHANGED cacheInstance
       ELSE /\ cacheInstance' = subSize(cacheInstance, loc[p].entry)
            /\ loc' = [loc EXCEPT ![p].pc = "rm_delete", ![p].entry = NoValue]
            /\ UNCHANGED <<ret, order>>
    /\ UNCHANGED libFrame

\* remove: this.cache.delete(key)
RmDelete(p) ==
    /\ At(p, "rm_delete")
    /\ cacheInstance' = [cacheInstance EXCEPT !.cache = MapDelete(@, loc[p].rkey)]
    /\ LeaveRemove(p)
    /\ UNCHANGED libFrame

\* set: this.cache.set(key, { data, size })
SetInsert(p) ==
    /\ At(p, "set_insert")
    /\ cacheInstance' = [cacheInstance EXCEPT
           !.cache = MapSet(@, loc[p].key, [data |-> loc[p].data, size |-> loc[p].size])]
    /\ Goto(p, "set_add")
    /\ UNCHANGED libFrame

\* set: this.currentSize += size
SetAdd(p) ==
    /\ At(p, "set_add")
    /\ cacheInstance' = addSize(cacheInstance, loc[p].size)
    /\ Return(p, "return", Undefined, cacheInstance.cache, TRUE)
    /\ UNCHANGED libFrame

\* the steps inside a call
CacheStep(p) ==
    \/ GetHas(p) \/ GetRead(p) \/ GetDelete(p) \/ GetInsert(p)
    \/ SetHas(p) \/ SetTest(p) \/ SetFirst(p) \/ SetInsert(p) \/ SetAdd(p)
    \/ RmHas(p) \/ RmRead(p) \/ RmSize(p) \/ RmDelete(p)

CacheCall(p) ==
    \/ \E key \in StepKeys : CallGet(p, key)
    \/ \E key \in StepKeys, data \in StepData : CallSet(p, key, data)

\* the capacity of the cache the callers share
StepMaxSize == 8

InitConc ==
    /\ cacheInstance = NewLRUCache(StepMaxSize)
    /\ config = [useOptimized |-> TRUE, cacheSize |-> DefaultCacheSize, cache |-> "null"]
    /\ features = <<>>
    /\ ret = [op |-> "init"]
    /\ promoted = NotPromoted
    /\ mutated = {}
    /\ shares = {}
    /\ loc = [p \in Callers |-> Idle]
    /\ atomic \in BOOLEAN
    /\ order = <<>>

NextConc == \E p \in Callers : CacheCall(p) \/ CacheStep(p)

\* two callers on one LRUCache, their calls atomic or interleaved
SpecConc == InitConc /\ [][NextConc]_vars

Quiet == \A p \in Callers : loc[p].pc = "idle"

KeySeq(m) == [i \in 1..Len(m) |-> m[i].key]

\* C19: when each call runs as one atomic step, in every state between calls
\* currentSize is the sum of the stored sizes, the Map's order is the order of
\* the last get or set of each stored key, and no call has faulted. (That
\* interleaved steps do reach a state where this fails is C19_Witness.)
C19_AtomicCallsKeepCacheConsistent ==
    (atomic /\ Quiet)
    => /\ cacheInstance.currentSize = SumSeq(EntrySizes(cacheInstance))
       /\ KeySeq(cacheInstance.cache) = order
       /\ ret.op # "init" => ret.kind = "return"

\* interleaved steps, both callers back from their calls without a fault, and
\* currentSize is not the sum of the stored sizes
C19_Witness ==
    /\ ~atomic /\ Quiet
    /\ ret.op # "init" /\ ret.kind = "return"
    /\ cacheInstance.currentSize # SumSeq(EntrySizes(cacheInstance))

\* interleaved steps, the accounting right, the recency order wrong
C19_WitnessOrder ==
    /\ ~atomic /\ Quiet
    /\ cacheInstance.currentSize = SumSeq(EntrySizes(cacheInstance))
    /\ \A i \in 1..Len(cacheInstance.cache) : cacheInstance.cache[i].data # Undefined
    /\ KeySeq(cacheInstance.cache) # order

\* atomic calls: a set that had to evict has returned
C19_WitnessAtomic ==
    /\ atomic /\ Quiet
    /\ ret.op = "set"
    /\ Len(cacheInstance.cache) = 2
    /\ order = <<2, 1>>

-----------------------------------------------------------------------------
(* The scan of reverseGeolocation ring by ring: each step is one call of     *)
(* pointInPolygon. A position is (i, s, r): feature, sub-polygon and ring,   *)
(* counted from 0; s stays 0 in a Polygon.                                   *)

\* whether the loop body for this feature tests any ring at all
hasRings(country) ==
    \/ country.geometry.type = "Polygon"
    \/ country.geometry.type = "MultiPolygon" /\ Len(country.geometry.coordinates) > 0

\* the ring list the scan is in: coordinates of a Polygon, coords of a MultiPolygon
ringsOf(country, s) ==
    IF country.geometry.type = "Polygon"
    THEN country.geometry.coordinates
    ELSE country.geometry.coordinates[s + 1]

\* the step that leaves the scan where it is
afterRing_Stay(country, L, inside) == L

\* Where the scan stands after testing ring r of the ring list it is in:
\*   outer ring, inside, holes to test   the first hole
\*   outer ring, inside, no holes        found, and out of both loops
\*   outer ring, outside, or a hole hit  the next sub-polygon, else i++
\*   a hole missed                       the next hole, else found
afterRing(country, L, inside) ==
    LET rs      == ringsOf(country, L.s)
        more    == /\ country.geometry.type = "MultiPolygon"
                   /\ L.s + 1 < Len(country.geometry.coordinates)
        nextSub == IF more
                   THEN [L EXCEPT !.s = @ + 1, !.r = 0, !.found = FALSE]
                   ELSE [L EXCEPT !.i = @ + 1, !.s = 0, !.r = 0, !.found = FALSE]
        done    == [L EXCEPT !.pc = "scan_end", !.found = TRUE]
    IN IF L.r = 0
       THEN IF inside /\ Len(rs) > 1 THEN [L EXCEPT !.r = 1, !.found = TRUE]
            ELSE IF inside THEN done
            ELSE nextSub
       ELSE IF inside THEN nextSub
            ELSE IF L.r + 1 < Len(rs) THEN [L EXCEPT !.r = @ + 1]
            ELSE done

CallScan(p, lat, lng) ==
    /\ Callable(p)
    /\ loc' = [loc EXCEPT ![p] = [pc |-> "scan", op |-> "scan", key |-> 0,
                                  point |-> <<lng.v, lat.v>>,
                                  i |-> 0, s |-> 0, r |-> 0, found |-> FALSE,
                                  visited |-> <<>>]]
    /\ UNCHANGED <<cacheInstance, ret, order, libFrame>>

\* one pointInPolygon call and the branches that follow it
ScanRing(p) ==
    /\ At(p, "scan")
    /\ loc[p].i < Len(features)
    /\ hasRings(features[loc[p].i + 1])
    /\ LET L       == loc[p]
           country == features[L.i + 1]
           inside  == pointInPolygon(ringsOf(country, L.s)[L.r + 1], L.point)
           seen    == [L EXCEPT !.visited = Append(@, <<L.i, L.s, L.r>>)]
       IN loc' = [loc EXCEPT ![p] = afterRing(country, seen, inside)]
    /\ UNCHANGED <<cacheInstance, ret, order, libFrame>>

\* a feature whose geometry has no ring to test: i++
ScanSkip(p) ==
    /\ At(p, "scan")
    /\ loc[p].i < Len(features)
    /\ ~hasRings(features[loc[p].i + 1])
    /\ loc' = [loc EXCEPT ![p].i = @ + 1,
                          ![p].visited = Append(@, <<loc[p].i, 0, 0>>)]
    /\ UNCHANGED <<cacheInstance, ret, order, libFrame>>

\* the loop is over: by a break with found, or at the end of the index
ScanEnd(p) ==
    /\ Turn(p)
    /\ \/ loc[p].pc = "scan_end"
       \/ loc[p].pc = "scan" /\ loc[p].i >= Len(features)
    /\ Return(p, "return",
              [found |-> loc[p].found, i |-> loc[p].i, point |-> loc[p].point,
               visited |-> loc[p].visited],
              cacheInstance.cache, FALSE)
    /\ UNCHANGED <<cacheInstance, libFrame>>

ScanStep(p) == ScanRing(p) \/ ScanSkip(p) \/ ScanEnd(p)

ScanCall(p) == \E q \in QueryPoints : CallScan(p, q[1], q[2])

InitSteps ==
    /\ cacheInstance = NewLRUCache(StepMaxSize)
    /\ config = [useOptimized |-> TRUE, cacheSize |-> DefaultCacheSize, cache |-> "null"]
    /\ features \in FeatureIndexes
    /\ ret = [op |-> "init"]
    /\ promoted = NotPromoted
    /\ mutated = {}
    /\ shares = {}
    /\ loc = [p \in Callers |-> Idle]
    /\ atomic = TRUE
    /\ order = <<>>

\* a caller inside a call takes the call's next step
Running == \E p \in Callers : CacheStep(p) \/ ScanStep(p)

NextSteps == (\E p \in Callers : CacheCall(p) \/ ScanCall(p)) \/ Running

\* Calls run one at a time, statement by statement, and a call that has
\* started keeps running: JavaScript runs a call to completion.
SpecSteps == InitSteps /\ [][NextSteps]_vars /\ WF_vars(Running)

\* the scan run in steps ends where the scan run as one loop ends
StepScanAgrees ==
    ret.op = "scan"
    => LET sc == scan(features, 0, ret.value.point, <<>>)
       IN ret.value.found = sc.found /\ ret.value.i = sc.i

NoRepeat(visited) ==
    \A a, b \in 1..Len(visited) : a # b => visited[a] # visited[b]

====
